---- MODULE Spec2Model ----
(***************************************************************************)
(* State-machine model of ThreadPool (src/Thread_Pool/ThreadPool.hpp) and  *)
(* JobQueue (src/Thread_Pool/JobQueue.hpp).                                *)
(*                                                                         *)
(* Threads of the model:                                                   *)
(*   - one controller thread making the lifecycle calls (Start_N_Threads,  *)
(*     Start_All_Threads, Kill_All, Synchronize, Empty_Job_Queue and the   *)
(*     destructor); these methods touch m_nrunning, m_nthreads and         *)
(*     m_threads without any lock, so they are issued by one thread;       *)
(*   - any number of submitter threads calling Add_Job: one of them at a   *)
(*     time is inside Add_Job, as owner of m_jobs_mtx, and those waiting   *)
(*     in lock() have no state of their own;                               *)
(*   - the worker threads running ThreadPool::Idle.                        *)
(* A step of the controller or of a submitter is one lock acquisition or   *)
(* one shared-memory access (with the unlock that follows it).  A worker   *)
(* never holds two mutexes and does nothing but the one guarded access     *)
(* between lock() and unlock(), so each of its critical sections is one    *)
(* step, enabled when the mutex is free; its unguarded accesses and each   *)
(* Execute are steps of their own.                                         *)
(*                                                                         *)
(* Unsynchronized reads: Synchronize reads m_jobs and m_signals without a  *)
(* mutex while workers write them under one; such a read of a single word  *)
(* yields the value before or after the concurrent write, which the        *)
(* interleaving of steps covers.  The read of m_signals.at(_my_id) at the  *)
(* end of a worker's iteration holds no mutex either, and may run while    *)
(* Start_N_Threads is inside m_signals.push_back, which may reallocate the *)
(* vector: that read is of freed storage and yields any value.             *)
(***************************************************************************)
EXTENDS Integers, Sequences, FiniteSets, TLC

\* ---- bounds of the model -------------------------------------------------
MaxN == 2            \* largest thread count given to the constructor / Start_N_Threads
MaxJobs == 2         \* number of Add_Job calls in a behaviour
MaxSignals == 2      \* largest length m_signals may grow to (it grows on every restart)

Workers == 0 .. (MaxN - 1)          \* values of _my_id
Tasks == 1 .. MaxJobs               \* the Job_Base objects, numbered in order of submission

\* ---- program constants ---------------------------------------------------
NoJob == 0                          \* nullptr returned by Get_Work
Free == 0 - 1                       \* owner of an unlocked std::mutex
Ctl == 0 - 2                        \* the controller thread as owner of a mutex
Submitter == 0 - 3                  \* a submitter thread as owner of a mutex

STARTING == "STARTING"
WORKING == "WORKING"
IDLE == "IDLE"
SIGTERM == "SIGTERM"
TERMINATING == "TERMINATING"
THREAD_SIGNALS == {STARTING, WORKING, IDLE, SIGTERM, TERMINATING}

VARIABLES
  m_nthreads,      \* desired number of threads
  m_nrunning,      \* number of threads the pool counts as running
  m_threads,       \* std::vector<std::thread>: the _my_id of each thread object
  m_signals,       \* std::vector<THREAD_SIGNALS>
  m_jobs,          \* JobQueue::m_jobs, a FIFO of tasks
  m_jobs_mtx,      \* owner of the jobs mutex
  m_signals_mtx,   \* owner of the signals mutex
  wpc,             \* per worker: position inside Idle ("none": no such thread)
  job,             \* per worker: the local variable job of Idle
  cpc,             \* controller: position inside the call in progress
  op,              \* controller: the call in progress, or the last one made
  arg,             \* controller: the argument of that call (_n or wait_to_finish)
  ret,             \* controller: the value the last call returned
  ci,              \* controller: loop index of the call in progress
  nSubmitted,      \* history: number of tasks handed to Add_Job so far
  execCount,       \* history: per task, number of times Execute ran
  purged,          \* history: tasks destroyed by JobQueue::Clear
  callJobs,        \* history: m_jobs when the Kill_All or destructor in progress was called
  concAdd          \* history: an Add_Job overlapped the Synchronize or Kill_All in progress

vars == <<m_nthreads, m_nrunning, m_threads, m_signals, m_jobs, m_jobs_mtx,
          m_signals_mtx, wpc, job, cpc, op, arg, ret, ci, nSubmitted,
          execCount, purged, callJobs, concAdd>>

poolVars == <<m_nthreads, m_nrunning, m_threads, m_signals>>
workerVars == <<wpc, job>>
ctlVars == <<cpc, op, arg, ret, ci>>
callHist == <<callJobs, concAdd>>
taskHist == <<nSubmitted, execCount, purged>>

Range(s) == {s[k] : k \in DOMAIN s}

\* ---- JobQueue ------------------------------------------------------------
\* JobQueue::Add_Job: m_jobs.push(job)
JobQueue_Add_Job(q, j) == Append(q, j)

\* Get_Work with the pop() left out: the front job stays in the queue
Get_Work_NoPop(q) ==
  IF q = <<>> THEN [job |-> NoJob, q |-> q]
              ELSE [job |-> Head(q), q |-> q]

\* JobQueue::Get_Work: nullptr on an empty queue, else front() and pop()
Get_Work(q) ==
  IF q = <<>> THEN [job |-> NoJob, q |-> q]
              ELSE [job |-> Head(q), q |-> Tail(q)]

\* Empty with the test left out: Synchronize does not wait for the queue
Empty_Always(q) == TRUE

\* JobQueue::Empty
Empty(q) == q = <<>>

\* JobQueue::Size
Size(q) == Len(q)

\* Clear with an "if" in place of the "while": only the front job is destroyed
Clear_FrontOnly(q) == IF q = <<>> THEN q ELSE Tail(q)

\* JobQueue::Clear: delete and pop every job
Clear(q) == <<>>

\* ---- constructor ---------------------------------------------------------
Init ==
  /\ m_nthreads \in 0 .. MaxN
  /\ m_nrunning = 0
  /\ m_threads = <<>>
  /\ m_signals = <<>>
  /\ m_jobs = <<>>
  /\ m_jobs_mtx = Free
  /\ m_signals_mtx = Free
  /\ wpc = [i \in Workers |-> "none"]
  /\ job = [i \in Workers |-> NoJob]
  /\ cpc = "idle"
  /\ op = "ThreadPool"
  /\ arg = m_nthreads
  /\ ret = "void"
  /\ ci = 0
  /\ nSubmitted = 0
  /\ execCount = [t \in Tasks |-> 0]
  /\ purged = {}
  /\ callJobs = <<>>
  /\ concAdd = FALSE

\* the controller is inside the destructor, or the pool is destroyed
InDestructor == cpc \in {"dtor_signal", "dtor_ejq_lock", "dtor_clear", "dtor_join", "destroyed"}

\* some Add_Job call is in progress
AddInProgress == m_jobs_mtx = Submitter

\* the controller enters a call
EnterCall(name) == op' = name

\* the calls whose history is kept
KeepsQueue(name) == name \in {"Kill_All", "~ThreadPool"}
KeepsAdds(name) == name \in {"Kill_All", "Synchronize"}

\* the call goes on at position pc with argument a
Proceed(pc, a) ==
  /\ cpc' = pc
  /\ arg' = a
  /\ ret' = "none"
  /\ ci' = 0
  /\ callJobs' = IF KeepsQueue(op') THEN m_jobs ELSE <<>>
  /\ concAdd' = (KeepsAdds(op') /\ AddInProgress)

\* the call returns val to the controller; the history of the call is dropped
Return(val) ==
  /\ cpc' = "idle"
  /\ ret' = val
  /\ arg' = 0
  /\ ci' = 0
  /\ callJobs' = <<>>
  /\ concAdd' = FALSE

\* ---- ThreadPool::Add_Job (submitter threads) -----------------------------
\* Guard_t guard(m_jobs_mtx)
AddLock ==
  /\ ~InDestructor
  /\ nSubmitted < MaxJobs
  /\ m_jobs_mtx = Free
  /\ m_jobs_mtx' = Submitter
  /\ concAdd' = (concAdd \/ (cpc # "idle" /\ KeepsAdds(op)))
  /\ UNCHANGED <<poolVars, m_jobs, m_signals_mtx, workerVars, ctlVars, taskHist, callJobs>>

\* m_jobs.Add_Job(_job), then the guard unlocks
AddPush ==
  /\ m_jobs_mtx = Submitter
  /\ m_jobs' = JobQueue_Add_Job(m_jobs, nSubmitted + 1)
  /\ nSubmitted' = nSubmitted + 1
  /\ m_jobs_mtx' = Free
  /\ concAdd' = (concAdd \/ (cpc # "idle" /\ KeepsAdds(op)))
  /\ UNCHANGED <<poolVars, m_signals_mtx, workerVars, ctlVars, execCount, purged, callJobs>>

\* ---- ThreadPool::Idle (worker threads) -----------------------------------
\* m_jobs_mtx.lock(); auto job = m_jobs.Get_Work(); m_jobs_mtx.unlock(); if (job != nullptr)
\* (the worker holds no other lock and touches nothing else in between, so the
\* critical section is one step, taken when the mutex is free)
WGetWork(i) ==
  /\ wpc[i] = "get_work"
  /\ m_jobs_mtx = Free
  /\ LET r == Get_Work(m_jobs) IN
       /\ m_jobs' = r.q
       /\ job' = [job EXCEPT ![i] = r.job]
       /\ wpc' = [wpc EXCEPT ![i] = IF r.job # NoJob THEN "set_working" ELSE "set_idle"]
  /\ UNCHANGED <<poolVars, m_jobs_mtx, m_signals_mtx, ctlVars, taskHist, callHist>>

\* WorkingRecord with the test for SIGTERM left out
WorkingRecord_Overwrite(sig) == WORKING

\* the record a worker writes when it has a job: WORKING unless SIGTERM is there
WorkingRecord(sig) == IF sig # SIGTERM THEN WORKING ELSE sig

\* IdleRecord with the test for SIGTERM left out
IdleRecord_Overwrite(sig) == IDLE

\* the record a worker writes when it has no job: IDLE unless SIGTERM is there
IdleRecord(sig) == IF sig # SIGTERM THEN IDLE ELSE sig

\* AfterClaim with the Execute of the SIGTERM branch left out
AfterClaim_Abandon(sig) == IF sig = SIGTERM THEN "check" ELSE "execute"

\* where the worker goes after the SIGTERM test made with a job in hand:
\* both branches call job->Execute()
AfterClaim(sig) == "execute"

\* m_signals_mtx.lock(); if (m_signals[_my_id] != SIGTERM) m_signals[_my_id] = WORKING;
\* m_signals_mtx.unlock()
WSetWorking(i) ==
  /\ wpc[i] = "set_working"
  /\ m_signals_mtx = Free
  /\ m_signals' = [m_signals EXCEPT ![i + 1] = WorkingRecord(m_signals[i + 1])]
  /\ UNCHANGED m_signals_mtx
  /\ wpc' = [wpc EXCEPT ![i] = AfterClaim(m_signals[i + 1])]
  /\ UNCHANGED <<m_nthreads, m_nrunning, m_threads, m_jobs, m_jobs_mtx, job,
                 ctlVars, taskHist, callHist>>

\* the worker's job after the iteration's Execute and delete
ExecutedJob(j) == NoJob

\* job->Execute(); delete job  (in both branches of the SIGTERM test)
WExecute(i) ==
  /\ wpc[i] = "execute"
  /\ execCount' = [execCount EXCEPT ![job[i]] = @ + 1]
  /\ job' = [job EXCEPT ![i] = ExecutedJob(job[i])]
  /\ wpc' = [wpc EXCEPT ![i] = "check"]
  /\ UNCHANGED <<poolVars, m_jobs, m_jobs_mtx, m_signals_mtx, ctlVars,
                 nSubmitted, purged, callHist>>

\* m_signals_mtx.lock(); if (m_signals[_my_id] != SIGTERM) m_signals[_my_id] = IDLE;
\* m_signals_mtx.unlock(); sleep_for
WSetIdle(i) ==
  /\ wpc[i] = "set_idle"
  /\ m_signals_mtx = Free
  /\ m_signals' = [m_signals EXCEPT ![i + 1] = IdleRecord(m_signals[i + 1])]
  /\ UNCHANGED m_signals_mtx
  /\ wpc' = [wpc EXCEPT ![i] = "check"]
  /\ UNCHANGED <<m_nthreads, m_nrunning, m_threads, m_jobs, m_jobs_mtx, job,
                 ctlVars, taskHist, callHist>>

\* the values the unlocked m_signals.at(_my_id) can yield: the record, or anything
\* while the controller is inside m_signals.push_back (the vector may be reallocated)
SignalRead(i) == IF cpc = "start_spawn" THEN THREAD_SIGNALS ELSE {m_signals[i + 1]}

\* switch (m_signals.at(_my_id)) { case SIGTERM: run = false; } and the test of while(run)
WCheck(i) ==
  /\ wpc[i] = "check"
  /\ \E seen \in SignalRead(i) :
       wpc' = [wpc EXCEPT ![i] = IF seen = SIGTERM THEN "set_terminating" ELSE "get_work"]
  /\ UNCHANGED <<poolVars, m_jobs, m_jobs_mtx, m_signals_mtx, job, ctlVars,
                 taskHist, callHist>>

\* m_signals_mtx.lock(); m_signals.at(_my_id) = TERMINATING; m_signals_mtx.unlock();
\* return from Idle
WSetTerminating(i) ==
  /\ wpc[i] = "set_terminating"
  /\ m_signals_mtx = Free
  /\ m_signals' = [m_signals EXCEPT ![i + 1] = TERMINATING]
  /\ UNCHANGED m_signals_mtx
  /\ wpc' = [wpc EXCEPT ![i] = "exited"]
  /\ UNCHANGED <<m_nthreads, m_nrunning, m_threads, m_jobs, m_jobs_mtx, job,
                 ctlVars, taskHist, callHist>>

Idle(i) ==
  \/ WGetWork(i)
  \/ WSetWorking(i)
  \/ WExecute(i)
  \/ WSetIdle(i)
  \/ WCheck(i)
  \/ WSetTerminating(i)

\* ---- ThreadPool::Start_N_Threads / Start_All_Threads ----------------------
\* GrownThreads with the test _n > m_nthreads left out: m_nthreads = _n always
GrownThreads_Assign(_n) == _n

\* the value of m_nthreads after "else if (_n > m_nthreads) m_nthreads = _n"
GrownThreads(_n) == IF _n > m_nthreads THEN _n ELSE m_nthreads

\* if (_n < m_nrunning) return false
StartRefuses(_n) == _n < m_nrunning

\* entry of Start_N_Threads up to m_threads.reserve(_n)
Start_N_Threads(_n) ==
  /\ cpc = "idle"
  /\ Len(m_signals) + (IF _n > m_nrunning THEN _n - m_nrunning ELSE 0) <= MaxSignals
  /\ EnterCall("Start_N_Threads")
  /\ IF StartRefuses(_n)
       THEN /\ Return("false")
            /\ UNCHANGED m_nthreads
       ELSE /\ m_nthreads' = GrownThreads(_n)
            /\ IF m_nrunning # m_nthreads'
                 THEN Proceed("start_lock_jobs", _n)
                 ELSE Return("true")
  /\ UNCHANGED <<m_nrunning, m_threads, m_signals, m_jobs, m_jobs_mtx, m_signals_mtx,
                 workerVars, taskHist>>

\* return Start_N_Threads(m_nthreads)
Start_All_Threads == Start_N_Threads(m_nthreads)

\* m_jobs_mtx.lock()
StartLockJobs ==
  /\ cpc = "start_lock_jobs"
  /\ m_jobs_mtx = Free
  /\ m_jobs_mtx' = Ctl
  /\ cpc' = "start_lock_signals"
  /\ UNCHANGED <<poolVars, m_jobs, m_signals_mtx, workerVars, op, arg, ret, ci,
                 taskHist, callHist>>

\* FirstSpawned off by one: the last running thread is spawned again
FirstSpawned_OffByOne == IF m_nrunning > 0 THEN m_nrunning - 1 ELSE m_nrunning

\* the first value of the loop variable: for (auto i = m_nrunning; ...)
FirstSpawned == m_nrunning

\* m_signals_mtx.lock(); auto i = m_nrunning
StartLockSignals ==
  /\ cpc = "start_lock_signals"
  /\ m_signals_mtx = Free
  /\ m_signals_mtx' = Ctl
  /\ ci' = FirstSpawned
  /\ cpc' = "start_loop"
  /\ UNCHANGED <<poolVars, m_jobs, m_jobs_mtx, workerVars, op, arg, ret,
                 taskHist, callHist>>

\* i < _n: the controller enters m_signals.push_back(STARTING)
StartPush ==
  /\ cpc = "start_loop"
  /\ ci < arg
  /\ cpc' = "start_spawn"
  /\ UNCHANGED <<poolVars, m_jobs, m_jobs_mtx, m_signals_mtx, workerVars, op, arg,
                 ret, ci, taskHist, callHist>>

\* push_back completes; m_threads.push_back(std::thread(Idle, this, i)); i++
StartSpawn ==
  /\ cpc = "start_spawn"
  /\ m_signals' = Append(m_signals, STARTING)
  /\ m_threads' = Append(m_threads, ci)
  /\ wpc' = [wpc EXCEPT ![ci] = "get_work"]
  /\ ci' = ci + 1
  /\ cpc' = "start_loop"
  /\ UNCHANGED <<m_nthreads, m_nrunning, m_jobs, m_jobs_mtx, m_signals_mtx, job,
                 op, arg, ret, taskHist, callHist>>

\* the loop ends: m_nrunning = m_threads.size()
StartLoopEnd ==
  /\ cpc = "start_loop"
  /\ ~(ci < arg)
  /\ m_nrunning' = Len(m_threads)
  /\ cpc' = "start_unlock_jobs"
  /\ UNCHANGED <<m_nthreads, m_threads, m_signals, m_jobs, m_jobs_mtx, m_signals_mtx,
                 workerVars, op, arg, ret, ci, taskHist, callHist>>

\* m_jobs_mtx.unlock()
StartUnlockJobs ==
  /\ cpc = "start_unlock_jobs"
  /\ m_jobs_mtx' = Free
  /\ cpc' = "start_unlock_signals"
  /\ UNCHANGED <<poolVars, m_jobs, m_signals_mtx, workerVars, op, arg, ret, ci,
                 taskHist, callHist>>

\* m_signals_mtx.unlock(); return true
StartUnlockSignals ==
  /\ cpc = "start_unlock_signals"
  /\ m_signals_mtx' = Free
  /\ Return("true")
  /\ UNCHANGED <<poolVars, m_jobs, m_jobs_mtx, workerVars, op, taskHist>>

\* ---- ThreadPool::Synchronize ---------------------------------------------
\* SyncRefuses with the test of m_nrunning left out
SyncRefuses_Never == FALSE

\* if (m_nrunning == 0) ... return false
SyncRefuses == m_nrunning = 0

\* entry of Synchronize: the test of m_nrunning and total_jobs = m_jobs.Size()
Synchronize ==
  /\ cpc = "idle"
  /\ EnterCall("Synchronize")
  /\ IF SyncRefuses
       THEN Return("false")
       ELSE Proceed("sync_wait", 0)
  /\ UNCHANGED <<poolVars, m_jobs, m_jobs_mtx, m_signals_mtx, workerVars, taskHist>>

\* while (!m_jobs.Empty()) sleep_for(1ms): leaves the loop once Empty() is read true
SyncWait ==
  /\ cpc = "sync_wait"
  /\ Empty(m_jobs)
  /\ cpc' = "sync_signals"
  /\ ci' = 1
  /\ UNCHANGED <<poolVars, m_jobs, m_jobs_mtx, m_signals_mtx, workerVars, op, arg,
                 ret, taskHist, callHist>>

\* the test of the inner loop: while (_signal == WORKING) sleep_for(1ms)
SyncMustWait(sig) == sig = WORKING

\* for (auto& _signal : m_signals): moves to the next record once this one is not WORKING
SyncSignals ==
  /\ cpc = "sync_signals"
  /\ ci <= Len(m_signals)
  /\ ~SyncMustWait(m_signals[ci])
  /\ ci' = ci + 1
  /\ UNCHANGED <<poolVars, m_jobs, m_jobs_mtx, m_signals_mtx, workerVars, cpc, op,
                 arg, ret, taskHist, callHist>>

\* return true, to the caller or into Kill_All(true)
SyncReturn ==
  /\ cpc = "sync_signals"
  /\ ci > Len(m_signals)
  /\ IF op = "Synchronize"
       THEN Return("true")
       ELSE cpc' = "kill_lock" /\ UNCHANGED <<arg, ret, ci, callHist>>
  /\ UNCHANGED <<poolVars, m_jobs, m_jobs_mtx, m_signals_mtx, workerVars, op, taskHist>>

\* ---- ThreadPool::Kill_All ------------------------------------------------
\* SignalAll with the assignment of the for_each left out: no record is changed
SignalAll_None(sigs) == sigs

\* the records after the for_each that signals every thread
SignalAll(sigs) == [k \in DOMAIN sigs |-> SIGTERM]

\* KillQueue with the queue cleared as the destructor does
KillQueue_Cleared(q) == <<>>

\* the queue as Kill_All leaves it: it has no statement touching m_jobs
KillQueue(q) == q

\* entry of Kill_All: if (wait_to_finish) Synchronize()
Kill_All(wait) ==
  /\ cpc = "idle"
  /\ EnterCall("Kill_All")
  /\ Proceed(IF wait /\ ~SyncRefuses THEN "sync_wait" ELSE "kill_lock",
             IF wait THEN 1 ELSE 0)
  /\ UNCHANGED <<poolVars, m_jobs, m_jobs_mtx, m_signals_mtx, workerVars, taskHist>>

\* m_signals_mtx.lock()
KillLock ==
  /\ cpc = "kill_lock"
  /\ m_signals_mtx = Free
  /\ m_signals_mtx' = Ctl
  /\ cpc' = "kill_signal"
  /\ UNCHANGED <<poolVars, m_jobs, m_jobs_mtx, workerVars, op, arg, ret, ci,
                 taskHist, callHist>>

\* for_each(m_signals, sigterm = SIGTERM); m_signals_mtx.unlock()
KillSignal ==
  /\ cpc = "kill_signal"
  /\ m_signals' = SignalAll(m_signals)
  /\ m_signals_mtx' = Free
  /\ ci' = 1
  /\ cpc' = "kill_join"
  /\ UNCHANGED <<m_nthreads, m_nrunning, m_threads, m_jobs, m_jobs_mtx, workerVars,
                 op, arg, ret, taskHist, callHist>>

\* Joined with the threads detached instead of joined: nothing is waited for
Joined_Detached(t) == TRUE

\* t.join() returns once the thread has returned from Idle
Joined(t) == wpc[t] = "exited"

\* for (auto& t : m_threads) if (t.joinable()) t.join()
KillJoin ==
  /\ cpc = "kill_join"
  /\ ci <= Len(m_threads)
  /\ Joined(m_threads[ci])
  /\ ci' = ci + 1
  /\ UNCHANGED <<poolVars, m_jobs, m_jobs_mtx, m_signals_mtx, workerVars, cpc, op,
                 arg, ret, taskHist, callHist>>

\* m_threads.clear(); m_nrunning = 0
KillClear ==
  /\ cpc = "kill_join"
  /\ ci > Len(m_threads)
  /\ m_threads' = <<>>
  /\ wpc' = [i \in Workers |-> IF i \in Range(m_threads) THEN "none" ELSE wpc[i]]
  /\ m_nrunning' = 0
  /\ m_jobs' = KillQueue(m_jobs)
  /\ Return("void")
  /\ UNCHANGED <<m_nthreads, m_signals, m_jobs_mtx, m_signals_mtx, job, op, taskHist>>

\* ---- ThreadPool::Empty_Job_Queue -----------------------------------------
\* Guard_t guard(m_jobs_mtx)
Empty_Job_Queue ==
  /\ cpc = "idle"
  /\ m_jobs_mtx = Free
  /\ m_jobs_mtx' = Ctl
  /\ EnterCall("Empty_Job_Queue")
  /\ Proceed("ejq_clear", 0)
  /\ UNCHANGED <<poolVars, m_jobs, m_signals_mtx, workerVars, taskHist>>

\* m_jobs.Clear(), then the guard unlocks
EjqClear ==
  /\ cpc = "ejq_clear"
  /\ purged' = purged \cup (Range(m_jobs) \ Range(Clear(m_jobs)))
  /\ m_jobs' = Clear(m_jobs)
  /\ m_jobs_mtx' = Free
  /\ Return("void")
  /\ UNCHANGED <<poolVars, m_signals_mtx, workerVars, op, nSubmitted, execCount>>

\* ---- ThreadPool::Thread_States -------------------------------------------
\* Guard_t guard(m_signals_mtx)
Thread_States ==
  /\ cpc = "idle"
  /\ m_signals_mtx = Free
  /\ m_signals_mtx' = Ctl
  /\ EnterCall("Thread_States")
  /\ Proceed("states_copy", 0)
  /\ UNCHANGED <<poolVars, m_jobs, m_jobs_mtx, workerVars, taskHist>>

\* the vector the call returns: a copy of m_signals
StatesCopied == m_signals

\* return std::vector<THREAD_SIGNALS>(m_signals), then the guard unlocks
StatesCopy ==
  /\ cpc = "states_copy"
  /\ m_signals_mtx' = Free
  /\ Return("states")
  /\ UNCHANGED <<poolVars, m_jobs, m_jobs_mtx, workerVars, op, taskHist>>

\* ---- ThreadPool::N_Threads_Running ---------------------------------------
\* return m_nrunning
N_Threads_Running == m_nrunning

\* ---- ThreadPool::N_Jobs_Remaining ----------------------------------------
\* return m_jobs.Size(): one read of the queue, no lock taken
N_Jobs_Remaining ==
  /\ cpc = "idle"
  /\ EnterCall("N_Jobs_Remaining")
  /\ Return("size")
  /\ UNCHANGED <<poolVars, m_jobs, m_jobs_mtx, m_signals_mtx, workerVars, taskHist>>

\* ---- ThreadPool::~ThreadPool ---------------------------------------------
\* m_signals_mtx.lock()
Destructor ==
  /\ cpc = "idle"
  /\ ~AddInProgress
  /\ m_signals_mtx = Free
  /\ m_signals_mtx' = Ctl
  /\ EnterCall("~ThreadPool")
  /\ Proceed("dtor_signal", 0)
  /\ UNCHANGED <<poolVars, m_jobs, m_jobs_mtx, workerVars, taskHist>>

\* for_each(m_signals, sigterm = SIGTERM); m_signals_mtx.unlock()
DtorSignal ==
  /\ cpc = "dtor_signal"
  /\ m_signals' = SignalAll(m_signals)
  /\ m_signals_mtx' = Free
  /\ cpc' = "dtor_ejq_lock"
  /\ UNCHANGED <<m_nthreads, m_nrunning, m_threads, m_jobs, m_jobs_mtx, workerVars,
                 op, arg, ret, ci, taskHist, callHist>>

\* Empty_Job_Queue(): Guard_t guard(m_jobs_mtx)
DtorEjqLock ==
  /\ cpc = "dtor_ejq_lock"
  /\ m_jobs_mtx = Free
  /\ m_jobs_mtx' = Ctl
  /\ cpc' = "dtor_clear"
  /\ UNCHANGED <<poolVars, m_jobs, m_signals_mtx, workerVars, op, arg, ret, ci,
                 taskHist, callHist>>

\* m_jobs.Clear(), then the guard unlocks
DtorClear ==
  /\ cpc = "dtor_clear"
  /\ purged' = purged \cup (Range(m_jobs) \ Range(Clear(m_jobs)))
  /\ m_jobs' = Clear(m_jobs)
  /\ m_jobs_mtx' = Free
  /\ ci' = 1
  /\ cpc' = "dtor_join"
  /\ UNCHANGED <<poolVars, m_signals_mtx, workerVars, op, arg, ret, nSubmitted,
                 execCount, callHist>>

\* for (auto& t : m_threads) if (t.joinable()) t.join()
DtorJoin ==
  /\ cpc = "dtor_join"
  /\ ci <= Len(m_threads)
  /\ Joined(m_threads[ci])
  /\ ci' = ci + 1
  /\ UNCHANGED <<poolVars, m_jobs, m_jobs_mtx, m_signals_mtx, workerVars, cpc, op,
                 arg, ret, taskHist, callHist>>

\* the destructor body ends; the members are destroyed
DtorDone ==
  /\ cpc = "dtor_join"
  /\ ci > Len(m_threads)
  /\ cpc' = "destroyed"
  /\ ret' = "void"
  /\ UNCHANGED <<poolVars, m_jobs, m_jobs_mtx, m_signals_mtx, workerVars, op, arg,
                 ci, taskHist, callHist>>

\* ---- the specification ---------------------------------------------------
\* the steps with which the controller continues a call already made
CtlStep ==
  \/ StartLockJobs \/ StartLockSignals \/ StartPush \/ StartSpawn \/ StartLoopEnd
  \/ StartUnlockJobs \/ StartUnlockSignals
  \/ SyncWait \/ SyncSignals \/ SyncReturn
  \/ KillLock \/ KillSignal \/ KillJoin \/ KillClear
  \/ EjqClear
  \/ StatesCopy
  \/ DtorSignal \/ DtorEjqLock \/ DtorClear \/ DtorJoin \/ DtorDone

Next ==
  \/ \E n \in 0 .. MaxN : Start_N_Threads(n)
  \/ Start_All_Threads
  \/ \E wait \in BOOLEAN : Kill_All(wait)
  \/ Synchronize
  \/ Empty_Job_Queue
  \/ Thread_States
  \/ N_Jobs_Remaining
  \/ Destructor
  \/ CtlStep
  \/ AddLock
  \/ AddPush
  \/ \E i \in Workers : Idle(i)

Spec == Init /\ [][Next]_vars

\* Scheduling: every thread that can take a step is eventually run, and a
\* thread waiting in lock() eventually gets a mutex that is released again and
\* again; a submitter inside Add_Job completes it.  No thread is obliged to
\* make a new call.
Fairness ==
  /\ SF_vars(CtlStep)
  /\ \A i \in Workers : SF_vars(Idle(i))
  /\ WF_vars(AddPush)

FairSpec == Spec /\ Fairness

TypeOK ==
  /\ m_nthreads \in 0 .. MaxN
  /\ m_nrunning \in 0 .. MaxN
  /\ \A k \in DOMAIN m_signals : m_signals[k] \in THREAD_SIGNALS
  /\ Len(m_signals) <= MaxSignals
  /\ Len(m_threads) <= MaxN

\* ---- the specification for Kill_All(false) ---------------------------------
\* The behaviours in which the controller only starts, grows and restarts the
\* pool and stops it with Kill_All(false), while submitters add jobs and the
\* workers run.  The calls left out either change nothing of the pool
\* (Synchronize, Thread_States, N_Jobs_Remaining), or leave it in a state that
\* these behaviours reach as well (Empty_Job_Queue, Kill_All(true)), or end it
\* (the destructor).
KillCtlStep ==
  \/ StartLockJobs \/ StartLockSignals \/ StartPush \/ StartSpawn \/ StartLoopEnd
  \/ StartUnlockJobs \/ StartUnlockSignals
  \/ KillLock \/ KillSignal \/ KillJoin \/ KillClear

KillNext ==
  \/ \E n \in 0 .. MaxN : Start_N_Threads(n)
  \/ Kill_All(FALSE)
  \/ KillCtlStep
  \/ AddLock
  \/ AddPush
  \/ \E i \in Workers : Idle(i)

KillSpec == Init /\ [][KillNext]_vars

\* Scheduling: a thread that can take a step from some moment on is eventually
\* run (weak fairness, less than Fairness asks of the scheduler).
KillFairness ==
  /\ WF_vars(KillCtlStep)
  /\ \A i \in Workers : WF_vars(Idle(i))
  /\ WF_vars(AddPush)

KillFairSpec == KillSpec /\ KillFairness

\* ==== properties ===========================================================
\* the workers holding task t in their local variable job
Holders(t) == {i \in Workers : job[i] = t}

\* the number of places of the queue holding task t
InQueue(t) == Cardinality({k \in DOMAIN m_jobs : m_jobs[k] = t})

\* the worker has left its loop (or was never spawned)
OutOfLoop(i) == wpc[i] \in {"set_terminating", "exited", "none"}

\* the step with which a direct call of Synchronize returns true
SyncReturnsTrue ==
  /\ op = "Synchronize"
  /\ cpc = "sync_signals"
  /\ cpc' = "idle"

\* C1: when Synchronize returns true, and no Add_Job overlapped the call, the
\* queue is empty and every task submitted before the call (and not destroyed
\* by an earlier Empty_Job_Queue) has been executed exactly once.
C1_SynchronizeCompletesAll ==
  [][ (SyncReturnsTrue /\ ~concAdd /\ m_nrunning >= 1) =>
        /\ m_jobs' = <<>>
        /\ \A t \in 1 .. nSubmitted : t \notin purged => execCount'[t] = 1 ]_vars

\* C2: every submitted task is in exactly one of: the queue (once), the hands
\* of exactly one worker, executed once, purged; a task not yet submitted is
\* in none; no task is executed twice or held by two workers.
C2_NoTaskDuplicatedOrDropped ==
  \A t \in Tasks :
    /\ execCount[t] <= 1
    /\ Cardinality(Holders(t)) <= 1
    /\ InQueue(t) + Cardinality(Holders(t)) + execCount[t]
         + (IF t \in purged THEN 1 ELSE 0) = (IF t <= nSubmitted THEN 1 ELSE 0)

\* two workers each hold a task of their own while the submitters have
\* handed in every task
C2_Witness ==
  /\ nSubmitted >= 2
  /\ \E i, j \in Workers : i # j /\ job[i] # NoJob /\ job[j] # NoJob /\ job[i] # job[j]

\* C3: a worker that has left its loop holds no task; a task leaves the hands
\* of the worker that dequeued it only by that worker's Execute; and after
\* Kill_All has returned no task is in a worker's hands.
C3_ClaimedTaskIsExecuted ==
  /\ [](\A i \in Workers : OutOfLoop(i) => job[i] = NoJob)
  /\ []((op = "Kill_All" /\ cpc = "idle") => \A i \in Workers : job[i] = NoJob)
  /\ [][ \A i \in Workers :
           (job[i] # NoJob /\ job'[i] # job[i]) =>
              /\ wpc[i] = "execute"
              /\ job'[i] = NoJob
              /\ execCount'[job[i]] = execCount[job[i]] + 1 ]_vars

\* a worker is about to execute the task it dequeued although its record
\* already holds SIGTERM, written by a Kill_All(false) that is now joining
C3_Witness ==
  /\ op = "Kill_All" /\ arg = 0 /\ cpc = "kill_join"
  /\ \E i \in Workers :
       wpc[i] = "execute" /\ job[i] # NoJob /\ m_signals[i + 1] = SIGTERM

\* C4: a Synchronize called while m_nrunning is 0 returns false in that very
\* step and leaves the queue as it was.
C4_SynchronizeRefusesWithoutWorkers ==
  [][ (Synchronize /\ m_nrunning = 0) =>
        /\ ret' = "false"
        /\ cpc' = "idle"
        /\ m_jobs' = m_jobs ]_vars

\* Synchronize has returned false after a Kill_All left tasks in the queue
C4_Witness ==
  /\ op = "Synchronize" /\ ret = "false" /\ cpc = "idle"
  /\ m_nrunning = 0
  /\ m_signals # <<>>
  /\ Len(m_jobs) >= 2

\* the step with which Kill_All returns
KillReturns == cpc = "kill_join" /\ cpc' = "idle"

\* C5: when a Kill_All(true), called with m_nrunning >= 1 and overlapped by no
\* Add_Job, returns, the queue is empty, every task submitted before the call
\* (and not destroyed by an earlier Empty_Job_Queue) has been executed, every
\* worker has left its loop and m_nrunning is 0.
C5_KillAllWaitDrains ==
  [][ (KillReturns /\ arg = 1 /\ m_nrunning >= 1 /\ ~concAdd) =>
        /\ m_jobs' = <<>>
        /\ \A t \in 1 .. nSubmitted : t \notin purged => execCount'[t] = 1
        /\ \A i \in Workers : OutOfLoop(i) /\ wpc'[i] = "none"
        /\ m_nrunning' = 0 ]_vars

\* a Kill_All(true) that found two tasks in the queue and two running workers
\* has joined them all and is at its last statement
C5_Witness ==
  /\ op = "Kill_All" /\ arg = 1 /\ cpc = "kill_join" /\ ci > Len(m_threads)
  /\ m_nrunning >= 2
  /\ Len(callJobs) >= 2
  /\ ~concAdd

\* the tasks of sequence q that are in set S, in the order of q
Restrict(q, S) == SelectSeq(q, LAMBDA t : t \in S)

\* a step of the controller inside Kill_All
KillStep ==
  \/ \E wait \in BOOLEAN : Kill_All(wait)
  \/ KillLock \/ KillSignal \/ KillJoin \/ KillClear

\* C6: no step of Kill_All changes the queue, and when Kill_All returns every
\* task that was in the queue at the call is still in the queue, in the order
\* it had, or has been executed.
C6_KillAllKeepsPending ==
  [][ /\ KillStep => m_jobs' = m_jobs
      /\ KillReturns =>
           /\ \A t \in Range(callJobs) : t \in Range(m_jobs') \/ execCount'[t] = 1
           /\ Restrict(m_jobs', Range(callJobs)) = Restrict(callJobs, Range(m_jobs')) ]_vars

\* a Kill_All has joined every thread and is at its last statement; of the
\* tasks in the queue at the call one has been executed and another is still
\* in the queue
C6_Witness ==
  /\ op = "Kill_All" /\ cpc = "kill_join" /\ ci > Len(m_threads)
  /\ \E t, u \in Range(callJobs) : execCount[t] = 1 /\ u \in Range(m_jobs)

\* the step in which Empty_Job_Queue (called directly or by the destructor)
\* runs JobQueue::Clear
PurgeStep == EjqClear \/ DtorClear

\* C7: the step of Empty_Job_Queue that clears leaves the queue empty and does
\* not touch the task any worker holds; a purged task is never executed, held
\* or queued again.
C7_PurgeSparesClaimedTasks ==
  /\ [](\A t \in purged : execCount[t] = 0 /\ Holders(t) = {} /\ InQueue(t) = 0)
  /\ [][ PurgeStep =>
           /\ m_jobs' = <<>>
           /\ job' = job
           /\ \A i \in Workers : job[i] # NoJob => job[i] \notin purged' ]_vars

\* Empty_Job_Queue has returned having destroyed a task of the queue while a
\* worker holds a task submitted before that one, dequeued before the purge
C7_Witness ==
  /\ op = "Empty_Job_Queue" /\ cpc = "idle" /\ ret = "void"
  /\ \E i \in Workers : \E t \in purged : job[i] # NoJob /\ job[i] < t

\* C8: once the destructor has completed no worker is in its loop, no worker
\* holds a task, the queue is empty, and every submitted task was executed
\* exactly once or destroyed unexecuted.
C8_DestructorLeavesNothing ==
  cpc = "destroyed" =>
    /\ \A i \in Workers : wpc[i] \in {"exited", "none"} /\ job[i] = NoJob
    /\ m_jobs = <<>>
    /\ \A t \in 1 .. nSubmitted :
         \/ execCount[t] = 1 /\ t \notin purged
         \/ execCount[t] = 0 /\ t \in purged

\* the destructor has completed on a pool that had running workers, a task in
\* a worker's hands and a task in the queue
C8_Witness ==
  /\ cpc = "destroyed"
  /\ m_threads # <<>>
  /\ \E t \in Range(callJobs) : t \in purged
  /\ \E t \in 1 .. nSubmitted : t \notin Range(callJobs) /\ execCount[t] = 1 /\ t \notin purged

\* a step of the controller inside Start_N_Threads
StartStep ==
  \/ \E n \in 0 .. MaxN : Start_N_Threads(n)
  \/ StartLockJobs \/ StartLockSignals \/ StartPush \/ StartSpawn \/ StartLoopEnd
  \/ StartUnlockJobs \/ StartUnlockSignals

\* C9: a Start_N_Threads(n) with n < m_nrunning returns false in the step of
\* the call and changes nothing; with n > m_nrunning it goes on to spawn, no
\* step of it changes an existing record or thread object, restarts a thread
\* or touches a worker's task, and it returns true with m_nrunning = n.
C9_StartNThreads ==
  [][ /\ \A n \in 0 .. MaxN :
           Start_N_Threads(n) =>
             /\ n < m_nrunning =>
                  /\ ret' = "false" /\ cpc' = "idle"
                  /\ UNCHANGED <<m_nrunning, m_nthreads, m_signals, m_threads, m_jobs,
                                 wpc, job>>
             /\ n > m_nrunning => cpc' = "start_lock_jobs"
      /\ StartStep =>
           /\ \A k \in DOMAIN m_signals : m_signals'[k] = m_signals[k]
           /\ \A k \in DOMAIN m_threads : m_threads'[k] = m_threads[k]
           /\ \A i \in Workers : wpc[i] # "none" => wpc'[i] = wpc[i]
           /\ job' = job
           /\ m_jobs' = m_jobs
      /\ (StartLoopEnd /\ arg > m_nrunning) => m_nrunning' = arg /\ Len(m_threads') = arg
      /\ StartUnlockSignals => ret' = "true" ]_vars

\* a Start_N_Threads has spawned the threads that grow a running pool and is
\* about to set m_nrunning, while a worker that was already running holds a task
C9_Witness ==
  /\ op = "Start_N_Threads" /\ cpc = "start_loop" /\ ~(ci < arg)
  /\ m_nrunning >= 1
  /\ arg > m_nrunning
  /\ Len(m_threads) = arg
  /\ \E i \in Workers : i < m_nrunning /\ job[i] # NoJob /\ wpc[i] = "execute"

\* a Start_N_Threads made while no worker was running has spawned at least one
\* worker and is about to set m_nrunning, and task t is waiting in the queue
StartedOver(t) ==
  /\ op = "Start_N_Threads" /\ cpc = "start_loop" /\ ~(ci < arg)
  /\ m_nrunning = 0
  /\ Len(m_threads) >= 1
  /\ t \in Range(m_jobs)

\* a call that ends the obligation to execute the pending tasks
Intervened == op \in {"Kill_All", "Empty_Job_Queue", "~ThreadPool"}

\* C10: a task that is in the queue while no worker is running is, once a
\* Start_N_Threads has started at least one worker, eventually executed exactly
\* once, unless Empty_Job_Queue or the destructor is called first (a later
\* Kill_All is let off as well, so that the property asks nothing of a pool
\* that was stopped again).
C10_PendingTaskRunsAfterStart ==
  \A t \in Tasks : StartedOver(t) ~> (execCount[t] = 1 \/ Intervened)

\* C11: in every state m_nrunning <= m_nthreads, and no step lowers m_nthreads;
\* the only step that changes it is a call of Start_N_Threads with an argument
\* above it (Start_All_Threads passes m_nthreads itself and so never does).
C11_RunningAtMostDesired ==
  /\ [](m_nrunning <= m_nthreads)
  /\ [][ /\ m_nthreads' >= m_nthreads
         /\ m_nthreads' # m_nthreads =>
              \E n \in 0 .. MaxN :
                n > m_nthreads /\ Start_N_Threads(n) /\ m_nthreads' = n ]_vars

\* a pool that was started, stopped by Kill_All and started again runs as many
\* workers as are desired
C11_Witness ==
  /\ op = "Start_N_Threads" /\ cpc = "idle" /\ ret = "true"
  /\ m_nrunning >= 1
  /\ m_nrunning = m_nthreads
  /\ Len(m_signals) > Len(m_threads)

\* the worker has been spawned and has not returned from Idle
Live(i) == wpc[i] \notin {"none", "exited"}

\* C12: the vector a call of Thread_States returns has exactly m_nrunning
\* records, and its record of index i is that of a live worker i.
C12_OneRecordPerLiveWorker ==
  [][ StatesCopy =>
        /\ Len(StatesCopied) = m_nrunning
        /\ \A k \in DOMAIN StatesCopied : Live(k - 1) ]_vars

\* the Kill_All or destructor in progress has written SIGTERM to every record;
\* every thread of m_threads was spawned before that call
SignalledAll == cpc \in {"kill_join", "dtor_ejq_lock", "dtor_clear", "dtor_join", "destroyed"}

\* worker i takes the step that ends its loop: run = false at the end of an iteration
LeavesLoop(i) == wpc[i] = "check" /\ wpc'[i] = "set_terminating"

\* C13: when Start_N_Threads spawns the worker of id i, the record of index i
\* is STARTING; and a worker leaves its loop only while a Kill_All or a
\* destructor called after its spawn has signalled it.
C13_SpawnedWorkerStartsAndStays ==
  [][ /\ StartSpawn => m_signals'[ci + 1] = STARTING
      /\ \A i \in Workers : LeavesLoop(i) => SignalledAll ]_vars

\* C14: when a direct call of Synchronize returns true, and no Add_Job
\* overlapped the call, the queue is empty, no record is WORKING and no worker
\* holds a task it has dequeued and not yet executed.
C14_SynchronizeSeesNoWork ==
  [][ (SyncReturnsTrue /\ ~concAdd) =>
        /\ Empty(m_jobs')
        /\ \A k \in DOMAIN m_signals' : m_signals'[k] # WORKING
        /\ \A i \in Workers : job'[i] = NoJob ]_vars

\* C15: once a Kill_All or the destructor has written SIGTERM to the records,
\* the end-of-iteration test of a live worker ends its loop, and no worker
\* begins a new iteration; so a signalled worker calls Get_Work at most once
\* more (in the iteration in progress) and leaves at the end of that iteration.
C15_SignalSeenWithinOneIteration ==
  [][ \A i \in Workers :
        (SignalledAll /\ Live(i)) =>
          /\ (wpc[i] = "check" /\ wpc'[i] # wpc[i]) => wpc'[i] = "set_terminating"
          /\ wpc'[i] = "get_work" => wpc[i] = "get_work" ]_vars

\* while Kill_All joins, a signalled worker has left its loop after executing a
\* task that was in the queue at the call, and another task is still queued
C15_Witness ==
  /\ op = "Kill_All" /\ cpc = "kill_join"
  /\ m_jobs # <<>>
  /\ \E i \in Workers : \E t \in Range(callJobs) :
       wpc[i] = "set_terminating" /\ m_signals[i + 1] = SIGTERM /\ execCount[t] = 1

\* the controller reads the queue: Size at the entry of Synchronize (also when
\* Kill_All(true) calls it), Empty in its loop, Size in N_Jobs_Remaining
CtlReadsQueue ==
  \/ Synchronize /\ ~SyncRefuses
  \/ Kill_All(TRUE) /\ ~SyncRefuses
  \/ SyncWait
  \/ N_Jobs_Remaining

\* C16: no thread reads or writes the queue while another thread is inside a
\* queue operation of its own, which is what holding m_jobs_mtx around every
\* access would ensure: the submitter pushes and the controller clears as
\* owner of the mutex, a worker's Get_Work takes the free mutex itself, and a
\* read of the queue by the controller finds the mutex free or its own.
C16_QueueAccessUnderMutex ==
  [][ /\ AddPush => m_jobs_mtx = Submitter
      /\ PurgeStep => m_jobs_mtx = Ctl
      /\ (\E i \in Workers : WGetWork(i)) => m_jobs_mtx = Free
      /\ CtlReadsQueue => m_jobs_mtx \in {Free, Ctl} ]_vars

\* the controller reads or writes the records: push_back in Start_N_Threads, the
\* for_each of Kill_All and of the destructor, the copy of Thread_States, and
\* the loop of Synchronize over the records
CtlAccessesSignals ==
  \/ StartPush \/ StartSpawn
  \/ KillSignal \/ DtorSignal
  \/ StatesCopy
  \/ SyncSignals

\* C17: every step that reads or writes a record of m_signals is taken by a
\* thread holding m_signals_mtx: the controller as its owner, a worker writing
\* its record by taking the free mutex in that step, and a worker making its
\* end-of-iteration test as owner of the mutex.
C17_RecordAccessUnderMutex ==
  [][ /\ CtlAccessesSignals => m_signals_mtx = Ctl
      /\ \A i \in Workers :
           /\ (WSetWorking(i) \/ WSetIdle(i) \/ WSetTerminating(i)) => m_signals_mtx = Free
           /\ WCheck(i) => m_signals_mtx = i ]_vars

\* C18: a record holding SIGTERM changes only by its worker's final write of
\* TERMINATING; and while a Kill_All or the destructor that has signalled is
\* in progress, the record of every live worker is SIGTERM.
C18_TerminateRequestKept ==
  /\ [](SignalledAll => \A i \in Workers : Live(i) => m_signals[i + 1] = SIGTERM)
  /\ [][ \A k \in DOMAIN m_signals :
           (m_signals[k] = SIGTERM /\ m_signals'[k] # SIGTERM) =>
              /\ m_signals'[k] = TERMINATING
              /\ WSetTerminating(k - 1) ]_vars

\* while Kill_All joins, a signalled worker holds a dequeued task and is about
\* to make the test that guards its write of WORKING, and another signalled
\* worker, with no task, is about to make the test that guards its write of IDLE
C18_Witness ==
  /\ op = "Kill_All" /\ cpc = "kill_join"
  /\ \E i, j \in Workers :
       /\ wpc[i] = "set_working" /\ job[i] # NoJob /\ m_signals[i + 1] = SIGTERM
       /\ wpc[j] = "set_idle" /\ m_signals[j + 1] = SIGTERM

\* the workers that are inside their loop
InLoop == {i \in Workers : ~OutOfLoop(i)}

\* C19: whenever the controller is in no call, the value of N_Threads_Running
\* is the number of workers that are inside their loop.
C19_RunningCountsLiveWorkers ==
  cpc = "idle" => N_Threads_Running = Cardinality(InLoop)

\* the controller is inside a direct call of Synchronize that did not refuse
InSynchronize == op = "Synchronize" /\ cpc \in {"sync_wait", "sync_signals"}

\* C20: a Synchronize called with m_nrunning >= 1 eventually returns (the
\* submitters make MaxJobs calls of Add_Job at most, and every Execute is one
\* step, so submissions stop and tasks terminate).
C20_SynchronizeReturns ==
  InSynchronize ~> (cpc = "idle")

\* the controller is inside a call Kill_All(false)
InKillAllNoWait == op = "Kill_All" /\ arg = 0 /\ cpc \in {"kill_lock", "kill_signal", "kill_join"}

\* C21: a Kill_All(false) eventually returns, whatever the queue holds, whether
\* or not Add_Job calls overlap it and wherever each worker is in its loop:
\* every thread of m_threads leaves Idle and is joined, and neither mutex is
\* waited for for ever.
C21_KillAllReturns ==
  InKillAllNoWait ~> (op = "Kill_All" /\ cpc = "idle" /\ m_nrunning = 0 /\ m_threads = <<>>)

\* a Kill_All(false) overlapped by an Add_Job has joined its two workers and is
\* at its last statement, with a task still in the queue
C21_Witness ==
  /\ op = "Kill_All" /\ arg = 0 /\ cpc = "kill_join" /\ ci > Len(m_threads)
  /\ Len(m_threads) >= 2
  /\ concAdd
  /\ m_jobs # <<>>

====
